---- MODULE Spec2Model ----
(***************************************************************************)
(* Coordination layer of the media pipeline: the `voices` table behind the *)
(* database gateway (voice_cloning/src/database_integration.py), the voice *)
(* worker that sweeps it, and the one-message queue consumer shell that    *)
(* both the voice worker (voice_cloning/src/queue_consumer.py) and the     *)
(* video orchestrator (video_generator/queue_consumer.py, main.py) run in. *)
(*                                                                         *)
(* Every process is one OS process started by the job runner.  Processes   *)
(* share only the `voices` table; each has a private broker queue.  A step *)
(* of a process is one broker call or one database call together with the  *)
(* local code around it.  A database call opens a connection of its own    *)
(* (execute_query), so any of them can raise; `faults` bounds how often.   *)
(* The workers are started by one runner with one environment, so          *)
(* USE_LOCAL_STORAGE and the default voice mapping are fixed at the start. *)
(***************************************************************************)
EXTENDS Integers, Sequences, FiniteSets, TLC

\* ---- bounds of the model ------------------------------------------------
MaxRows == 2        \* rows the voices table may hold
MaxMsgs == 1        \* messages in one job / transcript
MaxFaults == 1      \* database calls that raise during one behaviour

VoiceWorkers == {"vc1", "vc2"}      \* voice_cloning queue consumer processes
VideoWorkers == {"vg1"}             \* video_generator queue consumer processes
Procs == VoiceWorkers \cup VideoWorkers
Videos == {"v1", "v2"}              \* video_id values

NULL == "NULL"                      \* SQL NULL / Python None
ABSENT == "ABSENT"                  \* key not present in the message dict

VARIABLES
    voices,             \* the voices table: sequence of rows, index = id, in created_at order
    default_mapping,    \* voice_mappings holds a row with is_default = TRUE
    faults,             \* database calls that have raised so far
    video_ids,          \* video ids the launched jobs have named so far
    rows_reserved,      \* rows the launched jobs may still insert (keeps Len(voices) <= MaxRows)
    jobber_requests,    \* jobs the orchestrator published to 'jobber-requests'
    pc,                 \* position of each process
    queue,              \* each process's broker queue: "ready", "unacked", "empty", "deleted"
    body,               \* the body the runner put on each process's queue
    use_local_storage,  \* USE_LOCAL_STORAGE in the environment the workers are started with
    trace,              \* broker calls each process has made, in order
    message,            \* what consume_message returned to each process
    result,             \* result['success'] of _consume_single_message: "none", "success", "failure"
    exc,                \* exception propagating out of _consume_single_message
    exit_code,          \* exit status of the process, -1 while it runs
    loc,                \* locals of the job handler of each process
    claim_log,          \* history: per row, the start_processing_voice calls that returned True
    running,            \* self.running of each process's consumer object
    database_mode,      \* the process was started with USE_DATABASE_MODE=true
    ov_pc,              \* position of a standalone run of video_generator/main.py at its overlay step
    screenshot,         \* main()'s screenshot: image height, and the message_coordinates list
                        \* (the list object the overlay engine keeps a reference to)
    args,               \* audio durations and timing arguments of create_progressive_frames
    overlay,            \* the ProgressiveMessageOverlay object: cropped image height, shifted coordinates
    frame_files,        \* the frame files written to output_dir, in frame_number order
    audio_track,        \* the clips build_video concatenated into the audio track
    ov_exc,             \* exception raised by the overlay step
    ov_exit             \* exit status of the standalone run, -1 while it runs

tblVars == <<voices, default_mapping, video_ids, rows_reserved, jobber_requests>>
dbVars == <<voices, default_mapping, faults, video_ids, rows_reserved, jobber_requests>>
shellVars == <<queue, body, use_local_storage, trace, message, result, exc, exit_code>>
ovVars == <<ov_pc, screenshot, args, overlay, frame_files, audio_track, ov_exc, ov_exit>>
dmVars == <<running, database_mode>>
workerVars == <<voices, default_mapping, faults, video_ids, rows_reserved, jobber_requests, pc, queue,
                body, use_local_storage, trace, message, result, exc, exit_code, loc, claim_log,
                dmVars>>
vars == <<workerVars, ovVars>>

\* ---- the voices table and the database gateway --------------------------
Statuses == {"pending", "processing", "completed", "failed"}

\* INSERT INTO voices (...) VALUES (..., 'pending'); the other columns take their defaults.
\* text_content is the message's position in the transcript, standing for its text.
NewVoiceRow_processing(video_id, text_content) ==
    [video_id |-> video_id, text_content |-> text_content,
     status |-> "processing", output_audio_path |-> NULL,
     is_local_storage |-> TRUE, remote_storage_path |-> NULL, error_message |-> NULL]
NewVoiceRow(video_id, text_content) ==
    [video_id |-> video_id, text_content |-> text_content,
     status |-> "pending", output_audio_path |-> NULL,
     is_local_storage |-> TRUE, remote_storage_path |-> NULL, error_message |-> NULL]

create_voice_request(tbl, video_id, text_content) ==
    Append(tbl, NewVoiceRow(video_id, text_content))

\* rows matched by  WHERE id = %s AND status = 'pending'
start_processing_voice_unguarded(tbl, voice_id) ==
    {r \in DOMAIN tbl : r = voice_id}
start_processing_voice_where(tbl, voice_id) ==
    {r \in DOMAIN tbl : r = voice_id /\ tbl[r].status = "pending"}

start_processing_voice(tbl, voice_id) ==
    [r \in DOMAIN tbl |->
        IF r \in start_processing_voice_where(tbl, voice_id)
        THEN [tbl[r] EXCEPT !.status = "processing"]
        ELSE tbl[r]]

\* UPDATE voices SET status = 'completed', output_audio_path = ..., ... WHERE id = %s
complete_voice_processing_with_storage(tbl, voice_id, output_audio_path, is_local, remote_path) ==
    [r \in DOMAIN tbl |->
        IF r = voice_id
        THEN [tbl[r] EXCEPT !.status = "completed",
                            !.output_audio_path = output_audio_path,
                            !.is_local_storage = is_local,
                            !.remote_storage_path = remote_path]
        ELSE tbl[r]]

\* UPDATE voices SET status = 'failed', error_message = %s WHERE id = %s
fail_voice_processing_skipped(tbl, voice_id, error_message) == tbl
fail_voice_processing_no_message(tbl, voice_id, error_message) ==
    [r \in DOMAIN tbl |->
        IF r = voice_id THEN [tbl[r] EXCEPT !.status = "failed"] ELSE tbl[r]]
fail_voice_processing(tbl, voice_id, error_message) ==
    [r \in DOMAIN tbl |->
        IF r = voice_id
        THEN [tbl[r] EXCEPT !.status = "failed", !.error_message = error_message]
        ELSE tbl[r]]

\* SELECT ... WHERE v.status = 'pending' ORDER BY v.created_at ASC
get_pending_voice_requests_any_status(tbl) == [r \in DOMAIN tbl |-> r]
get_pending_voice_requests(tbl) ==
    SelectSeq([r \in DOMAIN tbl |-> r], LAMBDA r : tbl[r].status = "pending")

\* SELECT COUNT(*), COUNT(CASE WHEN status = ... ) FROM voices WHERE video_id = %s
get_video_voices_status(tbl, video_id) ==
    LET of == {r \in DOMAIN tbl : tbl[r].video_id = video_id} IN
    [total_voices     |-> Cardinality(of),
     completed_voices |-> Cardinality({r \in of : tbl[r].status = "completed"}),
     failed_voices    |-> Cardinality({r \in of : tbl[r].status = "failed"}),
     pending_voices   |-> Cardinality({r \in of : tbl[r].status \in {"pending", "processing"}})]

check_all_voices_completed_no_total(tbl, video_id) ==
    LET status == get_video_voices_status(tbl, video_id) IN
    status.completed_voices = status.total_voices
check_all_voices_completed(tbl, video_id) ==
    LET status == get_video_voices_status(tbl, video_id) IN
    status.total_voices > 0 /\ status.completed_voices = status.total_voices

\* final_path of process_single_voice: the remote key when the upload returned one
final_path_remote_only(output_path, remote_path) == remote_path
final_path(output_path, remote_path) ==
    IF remote_path # NULL THEN remote_path ELSE output_path

\* ---- message bodies the job runner may leave on a queue -----------------
\* kind: "none" (queue empty), "malformed" (json.loads raises JSONDecodeError),
\* "undecodable" (bytes that are not UTF-8, or JSON that is no object: another
\* exception), "emptydict" ({}), "dict", and "mock": the process is started with
\* USE_MOCK_MODE=true, there is no broker and MockMessageConsumer hands out its
\* built-in message.  n = -1: no 'messages' key.
Body(kind, has_id, video_id, n) ==
    [kind |-> kind, has_id |-> has_id, video_id |-> video_id, n |-> n]

NoMessage == Body("none", FALSE, ABSENT, -1)

\* MockMessageConsumer.consume_message: 'id', 'type': 'batch', four 'messages',
\* 'voice_mapping', 'output_dir', 'use_voice_cloning', and no 'video_id'
MockMessage == Body("mock", TRUE, ABSENT, 4)

VoiceBodies ==
    {NoMessage, Body("malformed", FALSE, ABSENT, -1), Body("undecodable", FALSE, ABSENT, -1),
     Body("emptydict", FALSE, ABSENT, -1),
     Body("dict", FALSE, "v1", 1),          \* the job shape without an 'id'
     Body("dict", TRUE, NULL, 1),           \* "video_id": null
     Body("dict", TRUE, ABSENT, 1),         \* legacy single/batch request
     MockMessage}
    \cup {Body("dict", TRUE, v, n) : v \in Videos, n \in 0..MaxMsgs}

VideoBodies ==
    {NoMessage, Body("malformed", FALSE, ABSENT, -1), Body("dict", FALSE, "v1", -1)}
    \cup {Body("dict", TRUE, v, -1) : v \in Videos}

\* rows a launched voice job will try to insert (a video job has no 'messages')
RowsOf(b) == IF b.kind = "dict" /\ b.has_id /\ b.video_id \in Videos /\ b.n > 0 THEN b.n ELSE 0

\* `claimed`: start_processing_voice returned True for the row being handled
Loc0 == [video_id |-> NULL, n |-> 0, i |-> 0, voice_ids |-> 0, pending |-> <<>>, k |-> 0,
         final_path |-> NULL, is_local |-> TRUE, remote_path |-> NULL, err |-> NULL,
         claimed |-> FALSE,
         audio_paths |-> <<>>,      \* the orchestrator's audio_paths: each path named by its row
         barrier |-> FALSE,         \* _wait_for_voices_completion returned True
         node_healthy |-> FALSE,    \* node_client.health_check() returned True
         coordinates |-> -1,        \* len(message_coordinates), -1 before the screenshot
         calls |-> <<>>]            \* calls main() made after generate_tts, in order

InitWorkers ==
    /\ voices = <<>>
    /\ default_mapping \in BOOLEAN
    /\ faults = 0
    /\ video_ids = {}
    /\ rows_reserved = 0
    /\ jobber_requests = {}
    /\ pc = [p \in Procs |-> "idle"]
    /\ queue = [p \in Procs |-> "empty"]
    /\ body = [p \in Procs |-> NoMessage]
    /\ use_local_storage \in BOOLEAN
    /\ trace = [p \in Procs |-> <<>>]
    /\ message = [p \in Procs |-> NoMessage]
    /\ result = [p \in Procs |-> "none"]
    /\ exc = [p \in Procs |-> "none"]
    /\ exit_code = [p \in Procs |-> -1]
    /\ loc = [p \in Procs |-> Loc0]
    /\ claim_log = <<>>
    /\ running = [p \in Procs |-> FALSE]
    /\ database_mode = [p \in Procs |-> FALSE]

\* no standalone run of main.py beside the queue consumers
InitOverlayOff ==
    /\ ov_pc = "off"
    /\ screenshot = NULL
    /\ args = NULL
    /\ overlay = NULL
    /\ frame_files = <<>>
    /\ audio_track = <<>>
    /\ ov_exc = "none"
    /\ ov_exit = -1

Init == InitWorkers /\ InitOverlayOff

\* a database call raises (psycopg2.connect or cursor.execute in execute_query)
Fault == faults < MaxFaults /\ faults' = faults + 1
NoFault == UNCHANGED faults

\* ---- scheduling ----------------------------------------------------------
\* Positions whose step touches only the process's own memory and its own broker
\* queue.  Such a step commutes with every step of the other processes and of
\* the database, so a process at one of them runs on before anything else takes
\* a step: the interleavings left out differ only in the order of independent
\* steps.
PrivatePcs == {"connect", "consume", "received", "process", "synthesize", "check",
               "vg_send", "vg_health", "vg_shot", "vg_overlay", "vg_rest", "delete", "close"}

Private(q) == pc[q] \in PrivatePcs

Scheduled(p) == \A q \in Procs \ {p} : ~Private(q)

\* ---- the queue consumer shell -------------------------------------------
\* The job runner creates the queue, leaves a body on it (or nothing) and starts
\* the process: main() builds the consumer and calls start().
main(p) ==
    /\ pc[p] = "idle"
    /\ Scheduled(p)
    /\ UNCHANGED <<ovVars, database_mode>>
    /\ running' = [running EXCEPT ![p] = TRUE]           \* start(): self.running = True
    /\ p = "vc2" => pc["vc1"] # "idle"      \* workers are numbered in launch order
    /\ \E b \in (IF p \in VoiceWorkers THEN VoiceBodies ELSE VideoBodies) :
        /\ b.video_id = "v2" => "v1" \in video_ids   \* ids are numbered in order of first use
        /\ video_ids' = video_ids \cup ({b.video_id} \cap Videos)
        /\ Len(voices) + rows_reserved + RowsOf(b) <= MaxRows
        /\ rows_reserved' = rows_reserved + RowsOf(b)
        /\ body' = [body EXCEPT ![p] = b]
        /\ queue' = [queue EXCEPT ![p] = IF b.kind \in {"none", "mock"} THEN "empty" ELSE "ready"]
    /\ pc' = [pc EXCEPT ![p] = "connect"]
    /\ UNCHANGED <<voices, default_mapping, faults, jobber_requests, use_local_storage, trace,
                   message, result, exc, exit_code, loc, claim_log>>

\* RabbitMQConsumer.connect, called first by _consume_single_message: False when
\* the broker cannot be reached, and _consume_single_message returns a failure.
\* MockMessageConsumer.connect makes no broker call and returns True.
connect(p) ==
    /\ pc[p] = "connect"
    /\ Scheduled(p)
    /\ UNCHANGED <<ovVars, dmVars>>
    /\ \/ /\ trace' = [trace EXCEPT ![p] =
                          IF body[p].kind = "mock" THEN @ ELSE Append(@, "connect")]
          /\ pc' = [pc EXCEPT ![p] = "consume"]
          /\ UNCHANGED result
       \/ /\ body[p].kind # "mock"
          /\ result' = [result EXCEPT ![p] = "failure"]
          /\ pc' = [pc EXCEPT ![p] = "close"]
          /\ UNCHANGED trace
    /\ UNCHANGED <<dbVars, queue, body, use_local_storage, message, exc, exit_code, loc,
                   claim_log>>

\* the broker calls consume_message makes for a body that parses, before it
\* returns the message
delivery_calls_ack_later == <<"basic_get">>
delivery_calls == <<"basic_get", "basic_ack">>

\* RabbitMQConsumer.consume_message: one basic_get with manual ack;
\* MockMessageConsumer.consume_message: the built-in message
consume_message(p) ==
    /\ pc[p] = "consume"
    /\ Scheduled(p)
    /\ UNCHANGED <<ovVars, dmVars>>
    /\ IF body[p].kind = "mock"
       THEN /\ message' = [message EXCEPT ![p] = MockMessage]
            /\ UNCHANGED <<queue, trace>>
       ELSE IF queue[p] # "ready"
       THEN /\ trace' = [trace EXCEPT ![p] = Append(@, "basic_get")]
            /\ UNCHANGED <<queue, message>>
       ELSE CASE body[p].kind = "malformed" ->
                   /\ trace' = [trace EXCEPT ![p] = @ \o <<"basic_get", "basic_nack">>]
                   /\ queue' = [queue EXCEPT ![p] = "empty"]
                   /\ UNCHANGED message
              [] body[p].kind = "undecodable" ->
                   /\ trace' = [trace EXCEPT ![p] = Append(@, "basic_get")]
                   /\ queue' = [queue EXCEPT ![p] = "unacked"]
                   /\ UNCHANGED message
              [] OTHER ->
                   /\ trace' = [trace EXCEPT ![p] = @ \o delivery_calls]
                   /\ queue' = [queue EXCEPT ![p] = "empty"]
                   /\ message' = [message EXCEPT ![p] = body[p]]
    /\ pc' = [pc EXCEPT ![p] = "received"]
    /\ UNCHANGED <<dbVars, body, use_local_storage, result, exc, exit_code, loc, claim_log>>

\* `not message` of _consume_single_message: None and {} are both falsy
Falsy(m) == m.kind \in {"none", "emptydict"}

\* _consume_single_message between consume_message and _process_single_message
consume_single_message(p) ==
    /\ pc[p] = "received"
    /\ Scheduled(p)
    /\ UNCHANGED <<ovVars, dmVars>>
    /\ IF Falsy(message[p])
       THEN /\ result' = [result EXCEPT ![p] = "failure"]
            /\ pc' = [pc EXCEPT ![p] = "close"]
            /\ UNCHANGED exc
       ELSE IF ~message[p].has_id
       THEN /\ exc' = [exc EXCEPT ![p] = "KeyError"]       \* message['id']
            /\ pc' = [pc EXCEPT ![p] = "close"]
            /\ UNCHANGED result
       ELSE /\ pc' = [pc EXCEPT ![p] = "process"]
            /\ UNCHANGED <<result, exc>>
    /\ UNCHANGED <<dbVars, queue, body, use_local_storage, trace, message, exit_code, loc,
                   claim_log>>

\* RabbitMQConsumer.delete_queue, reached only after _process_single_message
\* returned; MockMessageConsumer.delete_queue only logs
delete_queue(p) ==
    /\ pc[p] = "delete"
    /\ Scheduled(p)
    /\ UNCHANGED <<ovVars, dmVars>>
    /\ trace' = [trace EXCEPT ![p] =
                    IF body[p].kind = "mock" THEN @ ELSE Append(@, "queue_delete")]
    /\ queue' = [queue EXCEPT ![p] = IF body[p].kind = "mock" THEN @ ELSE "deleted"]
    /\ pc' = [pc EXCEPT ![p] = "close"]
    /\ UNCHANGED <<dbVars, body, use_local_storage, message, result, exc, exit_code, loc,
                   claim_log>>

\* status the interpreter exits with: start() catches Exception, not SystemExit
ExitStatus(e) == IF e = "SystemExit" THEN 1 ELSE 0

\* the finally of _consume_single_message (RabbitMQConsumer.close), then the
\* except/finally of start(), then the return of main()
close(p) ==
    /\ pc[p] = "close"
    /\ Scheduled(p)
    /\ UNCHANGED <<ovVars, database_mode>>
    /\ running' = [running EXCEPT ![p] = FALSE]          \* finally of start()
    /\ trace' = [trace EXCEPT ![p] =
                    IF \E j \in DOMAIN @ : @[j] = "connect" THEN Append(@, "close") ELSE @]
    /\ queue' = [queue EXCEPT ![p] = IF @ = "unacked" THEN "ready" ELSE @]
    /\ exit_code' = [exit_code EXCEPT ![p] = ExitStatus(exc[p])]
    /\ pc' = [pc EXCEPT ![p] = "exited"]
    /\ loc' = [loc EXCEPT ![p] = Loc0]            \* the process's memory is gone
    /\ message' = [message EXCEPT ![p] = NoMessage]
    /\ body' = [body EXCEPT ![p] = NoMessage]
    /\ result' = [result EXCEPT ![p] = "none"]    \* start() drops the result
    /\ exc' = [exc EXCEPT ![p] = "none"]
    /\ UNCHANGED <<dbVars, use_local_storage, claim_log>>

\* ---- the voice worker's job handler --------------------------------------
\* where _consume_single_message goes on once the handler has returned
AfterHandler_poll_again == "consume"
AfterHandler == "delete"

Finish(p, r) ==     \* _process_single_message returns its result to the shell
    /\ result' = [result EXCEPT ![p] = r]
    /\ pc' = [pc EXCEPT ![p] = AfterHandler]

\* where process_pending_voices returns to: _process_jobber_message, or the loop
\* of run_continuous_processing, which sleeps
SweepReturns(p) == IF database_mode[p] THEN "db_sleep" ELSE "final"

\* an exception leaves process_pending_voices: _process_jobber_message returns a
\* failure; the loop of run_continuous_processing prints it and sleeps
SweepRaises(p) ==
    IF database_mode[p]
    THEN pc' = [pc EXCEPT ![p] = "db_sleep"] /\ UNCHANGED result
    ELSE Finish(p, "failure")

\* create_voice_request calls the loop of _process_jobber_message makes: one
\* for each entry of message['messages']
messages_to_create_at_least_one(m) == IF m.n = 0 THEN 1 ELSE m.n
messages_to_create(m) == m.n

\* VoiceCloningQueueConsumer._process_single_message, and _process_jobber_message
\* up to its loop over the messages
process_single_message(p) ==
    /\ p \in VoiceWorkers
    /\ pc[p] = "process"
    /\ Scheduled(p)
    /\ UNCHANGED <<ovVars, dmVars>>
    /\ LET m == message[p] IN
       IF m.video_id # ABSENT /\ m.n # -1
       THEN IF m.video_id = NULL \/ messages_to_create(m) = 0
            THEN \* ValueError("Missing video_id"), or no voice request was created
                 /\ Finish(p, "failure")
                 /\ UNCHANGED loc
            ELSE /\ loc' = [loc EXCEPT ![p] = [Loc0 EXCEPT !.video_id = m.video_id,
                                                          !.n = messages_to_create(m)]]
                 /\ pc' = [pc EXCEPT ![p] = "create"]
                 /\ UNCHANGED result
       ELSE \* _process_single_tts / _process_batch_tts: the TTS engine decides
            /\ \E r \in {"success", "failure"} : Finish(p, r)
            /\ UNCHANGED loc
    /\ UNCHANGED <<dbVars, queue, body, use_local_storage, trace, message, exc, exit_code,
                   claim_log>>

\* one iteration of the loop of _process_jobber_message over the messages:
\* db.create_voice_request; an exception is logged and the loop goes on.  After
\* the last message: no voice id collected -> failure, else the sweep starts.
process_jobber_message_create(p) ==
    /\ pc[p] = "create"
    /\ Scheduled(p)
    /\ UNCHANGED <<ovVars, dmVars>>
    /\ rows_reserved' = rows_reserved - 1
    /\ \E created \in {0, 1} :               \* 0: the INSERT raises
       /\ voices' = IF created = 1 THEN create_voice_request(voices, loc[p].video_id, loc[p].i + 1)
                    ELSE voices
       /\ claim_log' = IF created = 1 THEN Append(claim_log, <<>>) ELSE claim_log
       /\ IF created = 1 THEN NoFault ELSE Fault
       /\ loc' = [loc EXCEPT ![p].i = @ + 1, ![p].voice_ids = @ + created]
       /\ IF loc[p].i + 1 < loc[p].n
          THEN pc' = [pc EXCEPT ![p] = "create"] /\ UNCHANGED result
          ELSE IF loc[p].voice_ids + created = 0
          THEN Finish(p, "failure")          \* "No voice requests were created"
          ELSE pc' = [pc EXCEPT ![p] = "fetch"] /\ UNCHANGED result
    /\ UNCHANGED <<default_mapping, video_ids, jobber_requests, queue, body,
                   use_local_storage, trace, message, exc, exit_code>>

\* VoiceProcessingWorker.process_pending_voices: the snapshot of the pending rows;
\* an exception of the query is caught by _process_jobber_message
process_pending_voices(p) ==
    /\ pc[p] = "fetch"
    /\ Scheduled(p)
    /\ UNCHANGED <<ovVars, dmVars>>
    /\ \/ LET pending_voices == get_pending_voice_requests(voices) IN
          /\ loc' = [loc EXCEPT ![p].pending = pending_voices, ![p].k = 1]
          /\ pc' = [pc EXCEPT ![p] = IF pending_voices = <<>> THEN SweepReturns(p) ELSE "claim"]
          /\ UNCHANGED <<result, faults>>
       \/ /\ Fault                           \* the query raises
          /\ SweepRaises(p)
          /\ UNCHANGED loc
    /\ UNCHANGED <<tblVars, queue, body, use_local_storage, trace, message, exc, exit_code,
                   claim_log>>

voice_id(p) == loc[p].pending[loc[p].k]

\* the for loop of process_pending_voices moves to the next row of the snapshot
NextVoice(p) ==
    /\ loc' = [loc EXCEPT ![p].k = @ + 1, ![p].err = NULL, ![p].final_path = NULL,
                          ![p].is_local = TRUE, ![p].remote_path = NULL,
                          ![p].claimed = FALSE]
    /\ pc' = [pc EXCEPT ![p] = IF loc[p].k + 1 > Len(loc[p].pending) THEN SweepReturns(p)
                               ELSE "claim"]

\* an exception inside process_single_voice / process_pending_voices
Raise(p, e, handler) ==
    /\ loc' = [loc EXCEPT ![p].err = e]
    /\ pc' = [pc EXCEPT ![p] = handler]

\* process_single_voice: `if not self.db.start_processing_voice(voice_id): return`
claim_gate_ignored(won) == TRUE
claim_gate(won) == won

\* process_single_voice: db.start_processing_voice; not claimed -> return.  An
\* exception of the call reaches the except of process_pending_voices.
process_single_voice_claim(p) ==
    /\ pc[p] = "claim"
    /\ Scheduled(p)
    /\ UNCHANGED <<ovVars, dmVars>>
    /\ \/ LET won == start_processing_voice_where(voices, voice_id(p)) # {} IN
          /\ voices' = start_processing_voice(voices, voice_id(p))
          /\ claim_log' = IF won
                          THEN [claim_log EXCEPT ![voice_id(p)] =
                                   Append(@, voices[voice_id(p)].status)]
                          ELSE claim_log
          /\ IF claim_gate(won)
             THEN /\ pc' = [pc EXCEPT ![p] = "synthesize"]
                  /\ loc' = [loc EXCEPT ![p].claimed = won]
             ELSE NextVoice(p)
          /\ NoFault
       \/ /\ Fault                                   \* the UPDATE raises
          /\ Raise(p, "db error", "fail_outer")
          /\ UNCHANGED <<voices, claim_log>>
    /\ UNCHANGED <<default_mapping, video_ids, rows_reserved, jobber_requests, shellVars>>

\* process_single_voice between the claim and the completion: the voice mapping
\* (a row created by this code never joins a mapping, so the default is used),
\* the output path, and the upload when remote storage is configured
process_single_voice_synthesize(p) ==
    /\ pc[p] = "synthesize"
    /\ Scheduled(p)
    /\ UNCHANGED <<ovVars, dmVars>>
    /\ \/ /\ Fault                                   \* get_default_voice_mapping raises
          /\ Raise(p, "db error", "fail_inner")
       \/ /\ ~default_mapping
          /\ Raise(p, "No voice mapping available", "fail_inner")
          /\ NoFault
       \/ /\ NoFault
          /\ default_mapping
          /\ \E remote_path \in (IF use_local_storage THEN {NULL} ELSE {NULL, "remote"}) :
                loc' = [loc EXCEPT ![p].remote_path = remote_path,
                                   ![p].final_path = final_path("local", remote_path),
                                   ![p].is_local = (remote_path = NULL)]
          /\ pc' = [pc EXCEPT ![p] = "complete"]
    /\ UNCHANGED <<tblVars, shellVars, claim_log>>

\* process_single_voice: db.complete_voice_processing_with_storage (the row
\* exists, so the row count is 1)
process_single_voice_complete(p) ==
    /\ pc[p] = "complete"
    /\ Scheduled(p)
    /\ UNCHANGED <<ovVars, dmVars>>
    /\ \/ /\ voices' = complete_voice_processing_with_storage(voices, voice_id(p),
                           loc[p].final_path, loc[p].is_local, loc[p].remote_path)
          /\ pc' = [pc EXCEPT ![p] = "check"]
          /\ UNCHANGED <<loc, faults>>
       \/ /\ Fault                                   \* the UPDATE raises
          /\ Raise(p, "db error", "fail_inner")
          /\ UNCHANGED voices
    /\ UNCHANGED <<default_mapping, video_ids, rows_reserved, jobber_requests, shellVars,
                   claim_log>>

\* process_single_voice: db.check_all_voices_completed after the completion; its
\* answer is only printed, its exception reaches the except of process_single_voice
process_single_voice_check(p) ==
    /\ pc[p] = "check"
    /\ Scheduled(p)
    /\ UNCHANGED <<ovVars, dmVars>>
    /\ \/ NextVoice(p) /\ NoFault
       \/ Fault /\ Raise(p, "db error", "fail_inner")
    /\ UNCHANGED <<tblVars, shellVars, claim_log>>

\* the except of process_single_voice: db.fail_voice_processing(voice_id, str(e));
\* an exception of that call reaches the except of process_pending_voices
process_single_voice_fail(p) ==
    /\ pc[p] = "fail_inner"
    /\ Scheduled(p)
    /\ UNCHANGED <<ovVars, dmVars>>
    /\ \/ /\ voices' = fail_voice_processing(voices, voice_id(p), loc[p].err)
          /\ NextVoice(p)
          /\ NoFault
       \/ /\ Fault                                   \* the UPDATE raises
          /\ Raise(p, "db error", "fail_outer")
          /\ UNCHANGED voices
    /\ UNCHANGED <<default_mapping, video_ids, rows_reserved, jobber_requests, shellVars,
                   claim_log>>

\* the except of process_pending_voices: db.fail_voice_processing(voice_request['id'],
\* str(e)); an exception of that call leaves the sweep and _process_jobber_message
\* returns a failure
process_pending_voices_fail(p) ==
    /\ pc[p] = "fail_outer"
    /\ Scheduled(p)
    /\ UNCHANGED <<ovVars, dmVars>>
    /\ \/ /\ voices' = fail_voice_processing(voices, voice_id(p), loc[p].err)
          /\ NextVoice(p)
          /\ UNCHANGED <<result, faults>>
       \/ /\ Fault                                   \* the UPDATE raises
          /\ SweepRaises(p)
          /\ UNCHANGED <<voices, loc>>
    /\ UNCHANGED <<default_mapping, video_ids, rows_reserved, jobber_requests, queue, body,
                   use_local_storage, trace, message, exc, exit_code, claim_log>>

\* the end of _process_jobber_message: db.check_all_voices_completed(video_id)
process_jobber_message_check(p) ==
    /\ pc[p] = "final"
    /\ Scheduled(p)
    /\ UNCHANGED <<ovVars, dmVars>>
    /\ \/ /\ Finish(p, IF check_all_voices_completed(voices, loc[p].video_id)
                       THEN "success" ELSE "failure")
          /\ NoFault
       \/ Fault /\ Finish(p, "failure")              \* the query raises
    /\ UNCHANGED <<tblVars, queue, body, use_local_storage, trace, message, exc, exit_code, loc,
                   claim_log>>

\* ---- the voice worker in database mode -------------------------------------
\* main() with USE_DATABASE_MODE=true: start_database_mode sets self.running,
\* builds a VoiceProcessingWorker and enters run_continuous_processing, whose
\* first statement is a sweep
start_database_mode(p) ==
    /\ p \in VoiceWorkers
    /\ pc[p] = "idle"
    /\ running' = [running EXCEPT ![p] = TRUE]
    /\ database_mode' = [database_mode EXCEPT ![p] = TRUE]
    /\ pc' = [pc EXCEPT ![p] = "fetch"]
    /\ UNCHANGED <<dbVars, shellVars, loc, claim_log, ovVars>>

\* run_continuous_processing: time.sleep(interval_seconds) after a sweep that
\* returned or raised, then the next iteration of `while True:`, which tests
\* nothing.  KeyboardInterrupt, the only way out of the loop, is not raised
\* once _signal_handler is installed for SIGINT.
run_continuous_processing(p) ==
    /\ pc[p] = "db_sleep"
    /\ Scheduled(p)
    /\ pc' = [pc EXCEPT ![p] = "fetch"]
    /\ loc' = [loc EXCEPT ![p] = Loc0]
    /\ UNCHANGED <<dbVars, shellVars, claim_log, ovVars, dmVars>>

\* SIGTERM or SIGINT is delivered to a running process: _signal_handler, which
\* replaced Python's default handlers, sets the flag and returns; the
\* interrupted call (a sleep, a query) is resumed
signal_handler(p) ==
    /\ pc[p] \notin {"idle", "exited"}
    /\ running[p]
    /\ running' = [running EXCEPT ![p] = FALSE]
    /\ UNCHANGED <<dbVars, shellVars, pc, loc, claim_log, ovVars, database_mode>>

\* ---- the video orchestrator's job handler --------------------------------
SysExit(p) ==       \* sys.exit(1) in video_generator main(): SystemExit leaves the shell
    /\ exc' = [exc EXCEPT ![p] = "SystemExit"]
    /\ pc' = [pc EXCEPT ![p] = "close"]

\* VideoGeneratorQueueConsumer._process_single_message calling main(): the
\* transcript from generate_chat (an exception of it is caught and becomes a
\* failure result), then the health check of the voice service
video_process_single_message(p) ==
    /\ p \in VideoWorkers
    /\ pc[p] = "process"
    /\ Scheduled(p)
    /\ UNCHANGED <<ovVars, dmVars>>
    /\ \/ /\ Finish(p, "failure")
          /\ UNCHANGED <<exc, loc, rows_reserved>>
       \/ /\ SysExit(p)                       \* tts_client.health_check() is False
          /\ UNCHANGED <<result, loc, rows_reserved>>
       \/ /\ \E n \in 0..MaxMsgs :
                /\ Len(voices) + rows_reserved + n <= MaxRows
                /\ rows_reserved' = rows_reserved + n
                /\ loc' = [loc EXCEPT ![p] =
                              [Loc0 EXCEPT !.video_id = message[p].video_id, !.n = n]]
          /\ pc' = [pc EXCEPT ![p] = "vg_create"]
          /\ UNCHANGED <<result, exc>>
    /\ UNCHANGED <<voices, default_mapping, faults, video_ids, jobber_requests, queue, body,
                   use_local_storage, trace, message, exit_code, claim_log>>

\* the rows one transaction of _create_voice_requests_in_database inserts: one
\* for each message, in the order of enumerate(messages)
RECURSIVE InsertRows(_, _, _)
InsertRows(tbl, video_id, n) ==
    IF n = 0 THEN tbl
    ELSE create_voice_request(InsertRows(tbl, video_id, n - 1), video_id, n)

\* VoiceCloningServiceClient._create_voice_requests_in_database: all rows of the
\* transcript in one transaction; any error rolls back and main() exits
create_voice_requests_in_database(p) ==
    /\ pc[p] = "vg_create"
    /\ Scheduled(p)
    /\ UNCHANGED <<ovVars, dmVars>>
    /\ rows_reserved' = rows_reserved - loc[p].n
    /\ \/ /\ voices' = InsertRows(voices, loc[p].video_id, loc[p].n)
          /\ claim_log' = claim_log \o [j \in 1..loc[p].n |-> <<>>]
          /\ pc' = [pc EXCEPT ![p] = "vg_send"]
          /\ UNCHANGED <<exc, faults>>
       \/ /\ Fault                            \* no connection, or an INSERT raises
          /\ SysExit(p)
          /\ UNCHANGED <<voices, claim_log>>
    /\ UNCHANGED <<default_mapping, video_ids, jobber_requests, queue, body,
                   use_local_storage, trace, message, result, exit_code, loc>>

\* VoiceCloningServiceClient._send_voice_request_to_jobber
send_voice_request_to_jobber(p) ==
    /\ pc[p] = "vg_send"
    /\ Scheduled(p)
    /\ UNCHANGED <<ovVars, dmVars>>
    /\ \/ /\ jobber_requests' = jobber_requests \cup
                                  {[video_id |-> loc[p].video_id, n |-> loc[p].n]}
          /\ pc' = [pc EXCEPT ![p] = "vg_wait"]
          /\ UNCHANGED exc
       \/ /\ SysExit(p)                       \* the publish raises
          /\ UNCHANGED jobber_requests
    /\ UNCHANGED <<voices, default_mapping, faults, video_ids, rows_reserved, queue, body,
                   use_local_storage, trace, message, result, exit_code, loc, claim_log>>

\* the test of _wait_for_voices_completion that ends the wait with True
voices_ready_no_total(status) == status.completed_voices = status.total_voices
voices_ready(status) ==
    status.completed_voices = status.total_voices /\ status.total_voices > 0

\* VoiceCloningServiceClient._wait_for_voices_completion: the poll that ends the
\* wait (a poll that sleeps and polls again changes nothing)
wait_for_voices_completion(p) ==
    /\ pc[p] = "vg_wait"
    /\ Scheduled(p)
    /\ UNCHANGED <<ovVars, dmVars>>
    /\ LET status == get_video_voices_status(voices, loc[p].video_id) IN
       \/ /\ status.failed_voices = 0
          /\ voices_ready(status)
          /\ pc' = [pc EXCEPT ![p] = "vg_paths"]
          /\ loc' = [loc EXCEPT ![p].barrier = TRUE]
          /\ UNCHANGED exc
       \/ /\ status.failed_voices > 0
          /\ SysExit(p)
          /\ UNCHANGED loc
       \/ /\ SysExit(p)   \* max_wait_time has elapsed, or no connection, or the query raises
          /\ UNCHANGED loc
    /\ UNCHANGED <<dbVars, queue, body, use_local_storage, trace, message, result, exit_code,
                   claim_log>>

\* SELECT output_audio_path ... WHERE video_id = %s AND status = 'completed'
\* ORDER BY created_at ASC, keeping the rows whose path is not empty.  A row's
\* path holds its id (f"{voice_id}_{character_name}.wav"), so the row stands
\* for its path.
completed_audio_paths(tbl, video_id) ==
    SelectSeq([r \in DOMAIN tbl |-> r],
              LAMBDA r : /\ tbl[r].video_id = video_id
                         /\ tbl[r].status = "completed"
                         /\ tbl[r].output_audio_path # NULL)

\* VoiceCloningServiceClient._get_completed_audio_paths and the end of
\* generate_tts: no connection or a failing query raises, and so does an empty
\* list ("No audio files were generated"); main() then calls sys.exit(1)
get_completed_audio_paths(p) ==
    /\ pc[p] = "vg_paths"
    /\ Scheduled(p)
    /\ UNCHANGED <<ovVars, dmVars>>
    /\ \/ LET audio_paths == completed_audio_paths(voices, loc[p].video_id) IN
          /\ NoFault
          /\ IF audio_paths = <<>>
             THEN SysExit(p) /\ UNCHANGED loc
             ELSE /\ loc' = [loc EXCEPT ![p].audio_paths = audio_paths]
                  /\ pc' = [pc EXCEPT ![p] = "vg_health"]
                  /\ UNCHANGED exc
       \/ /\ Fault
          /\ SysExit(p)
          /\ UNCHANGED loc
    /\ UNCHANGED <<voices, default_mapping, video_ids, rows_reserved, jobber_requests, queue,
                   body, use_local_storage, trace, message, result, exit_code, claim_log>>

\* main(): `if not node_client.health_check(): ... sys.exit(1)`
health_gate_open(is_healthy) == TRUE
health_gate(is_healthy) == is_healthy

\* NodeServiceClient.health_check, and main() leaving with sys.exit(1) when it
\* is False (a GET that raises or a status other than 200)
node_health_check(p) ==
    /\ pc[p] = "vg_health"
    /\ Scheduled(p)
    /\ UNCHANGED <<ovVars, dmVars>>
    /\ \E is_healthy \in BOOLEAN :
          /\ loc' = [loc EXCEPT ![p].node_healthy = is_healthy,
                                ![p].calls = Append(@, "health_check")]
          /\ IF health_gate(is_healthy)
             THEN pc' = [pc EXCEPT ![p] = "vg_shot"] /\ UNCHANGED exc
             ELSE SysExit(p)
    /\ UNCHANGED <<dbVars, queue, body, use_local_storage, trace, message, result, exit_code,
                   claim_log>>

\* what the screenshot service can answer to POST /api/generate-screenshots
\* for a transcript of n messages: the HTTP status, result['success'], the
\* number of image paths and the number of message coordinates
Responses(n) ==
    [http_ok : BOOLEAN, success : BOOLEAN, imagePaths : 0..1,
     messageCoordinates : {0, n, n + 1}]

\* NodeServiceClient.get_screenshot_with_coordinates: what it does with a response
get_screenshot_with_coordinates(response, n) ==
    IF ~response.http_ok
    THEN [raised |-> TRUE, message_coordinates |-> -1]      \* raise_for_status
    ELSE IF ~response.success
    THEN [raised |-> TRUE, message_coordinates |-> -1]      \* "Node.js service error"
    ELSE IF response.imagePaths = 0
    THEN [raised |-> TRUE, message_coordinates |-> -1]      \* "No screenshot path returned"
    ELSE [raised |-> FALSE, message_coordinates |-> response.messageCoordinates]

\* main(): the screenshot request; an exception of it, or an empty coordinate
\* list, is sys.exit(1)
get_screenshot(p) ==
    /\ pc[p] = "vg_shot"
    /\ Scheduled(p)
    /\ UNCHANGED <<ovVars, dmVars>>
    /\ \E response \in Responses(loc[p].n) :
          LET got == get_screenshot_with_coordinates(response, loc[p].n) IN
          /\ loc' = [loc EXCEPT ![p].coordinates = got.message_coordinates,
                                ![p].calls = Append(@, "generate-screenshots")]
          /\ IF got.raised \/ got.message_coordinates = 0
             THEN SysExit(p)
             ELSE pc' = [pc EXCEPT ![p] = "vg_overlay"] /\ UNCHANGED exc
    /\ UNCHANGED <<dbVars, queue, body, use_local_storage, trace, message, result, exit_code,
                   claim_log>>

\* main(): the overlay step: the engine is built, one duration is read per audio
\* path and create_progressive_frames is called; it raises ValueError when the
\* numbers of durations and coordinates differ, and any exception is sys.exit(1)
video_overlay_step(p) ==
    /\ pc[p] = "vg_overlay"
    /\ Scheduled(p)
    /\ UNCHANGED <<ovVars, dmVars>>
    /\ loc' = [loc EXCEPT ![p].calls = Append(@, "create_progressive_frames")]
    /\ \/ /\ Len(loc[p].audio_paths) = loc[p].coordinates
          /\ pc' = [pc EXCEPT ![p] = "vg_rest"]
          /\ UNCHANGED exc
       \/ SysExit(p)
    /\ UNCHANGED <<dbVars, queue, body, use_local_storage, trace, message, result, exit_code,
                   claim_log>>

\* the rest of main(): build_video either returns or raises (sys.exit(1)); back
\* in _process_single_message the result is a success when the output video
\* exists
video_generator_main(p) ==
    /\ pc[p] = "vg_rest"
    /\ Scheduled(p)
    /\ UNCHANGED <<ovVars, dmVars>>
    /\ loc' = [loc EXCEPT ![p].calls = Append(@, "build_video")]
    /\ \/ \E r \in {"success", "failure"} : Finish(p, r) /\ UNCHANGED exc
       \/ SysExit(p) /\ UNCHANGED result
    /\ UNCHANGED <<dbVars, queue, body, use_local_storage, trace, message, exit_code,
                   claim_log>>

\* ---- the progressive overlay engine ---------------------------------------
\* video_generator/video_overlay/progressive_overlay.py, driven by the overlay
\* step of a standalone run of video_generator/main.py.  Pixels are integers;
\* durations and buffers are counted in ticks of 1/TicksPerSecond seconds and
\* their products with fps are exact.  Message indices are 1-based here
\* (Python's msg_idx + 1).
PADDING == 15               \* pixels kept above the first and below the last shown message
FPS == 30                   \* frames per second of the output video
TicksPerSecond == 60        \* unit of time of the model: one tick is 1/60 s
MaxCoords == 3              \* messages in one screenshot

Max(a, b) == IF a >= b THEN a ELSE b
Min(a, b) == IF a <= b THEN a ELSE b
MaxOf(S) == CHOOSE x \in S : \A y \in S : y <= x
MinOf(S) == CHOOSE x \in S : \A y \in S : x <= y
Repeat(n, f) == [j \in 1..n |-> f]

\* ProgressiveMessageOverlay._crop_whatsapp_borders: the rows of the screenshot
\* that are kept, as the offset of the first one and their number
crop_whatsapp_borders(height, message_coordinates) ==
    IF message_coordinates # <<>>
    THEN LET top_y == MinOf({message_coordinates[i].y : i \in DOMAIN message_coordinates})
             bottom_y == MaxOf({message_coordinates[i].y + message_coordinates[i].height :
                                i \in DOMAIN message_coordinates})
             top_padding == Max(0, top_y - PADDING)
             bottom_padding == Min(height, bottom_y + PADDING)
         IN [top_padding |-> top_padding, height |-> bottom_padding - top_padding]
    ELSE LET top_crop == (height * 25) \div 100
             bottom_crop == (height * 80) \div 100
         IN [top_padding |-> top_crop, height |-> bottom_crop - top_crop]

\* ProgressiveMessageOverlay._adjust_coordinates_for_cropping
adjust_coordinates_for_cropping_skipped(message_coordinates, top_padding) == message_coordinates
adjust_coordinates_for_cropping(message_coordinates, top_padding) ==
    [i \in DOMAIN message_coordinates |->
        [message_coordinates[i] EXCEPT !.y = @ - top_padding]]

\* ProgressiveMessageOverlay._calculate_top_boundary
calculate_top_boundary(ov, first_msg_idx, messages_to_show) ==
    LET first_coord == ov.message_coordinates[first_msg_idx]
        prev_msg_idx == first_msg_idx - 1
    IN IF first_msg_idx = messages_to_show[1]
       THEN Max(0, first_coord.y - PADDING)
       ELSE IF prev_msg_idx >= 1
       THEN LET prev_coord == ov.message_coordinates[prev_msg_idx]
                prev_bottom == prev_coord.y + prev_coord.height
                distance == first_coord.y - prev_bottom
            IN Max(0, prev_bottom + (distance \div 2))
       ELSE Max(0, first_coord.y - PADDING)

\* ProgressiveMessageOverlay._calculate_bottom_boundary
calculate_bottom_boundary(ov, last_msg_idx, messages_to_show) ==
    LET last_coord == ov.message_coordinates[last_msg_idx]
        next_msg_idx == last_msg_idx + 1
    IN IF last_msg_idx = messages_to_show[Len(messages_to_show)]
       THEN Min(ov.cropped_height, last_coord.y + last_coord.height + PADDING)
       ELSE IF next_msg_idx <= Len(ov.message_coordinates)
       THEN LET next_coord == ov.message_coordinates[next_msg_idx]
                current_bottom == last_coord.y + last_coord.height
                distance == next_coord.y - current_bottom
            IN Min(ov.cropped_height, current_bottom + (distance \div 2))
       ELSE Min(ov.cropped_height, last_coord.y + last_coord.height + PADDING)

\* ProgressiveMessageOverlay._create_empty_frame: a transparent frame; `segment`
\* records which loop of create_progressive_frames wrote the file
create_empty_frame(segment) ==
    [kind |-> "empty", segment |-> segment, group_start |-> 0, messages_shown |-> 0,
     top_y |-> 0, bottom_y |-> 0]

\* ProgressiveMessageOverlay._create_group_frame: the rows top_y..bottom_y of the
\* cropped image pasted on a transparent frame
create_group_frame_one_less(ov, group_messages, messages_shown, segment) ==
    [kind |-> "reveal", segment |-> segment, group_start |-> group_messages[1],
     messages_shown |-> messages_shown - 1, top_y |-> 0, bottom_y |-> 0]
create_group_frame(ov, group_messages, messages_shown, segment) ==
    LET messages_to_show == SubSeq(group_messages, 1, messages_shown)
        first_msg_idx == messages_to_show[1]
        last_msg_idx == messages_to_show[Len(messages_to_show)]
    IN [kind |-> "reveal", segment |-> segment, group_start |-> group_messages[1],
        messages_shown |-> messages_shown,
        top_y |-> calculate_top_boundary(ov, first_msg_idx, messages_to_show),
        bottom_y |-> calculate_bottom_boundary(ov, last_msg_idx, messages_to_show)]

\* int(seconds * fps), seconds given in ticks
int_frames(ticks, fps) == (ticks * fps) \div TicksPerSecond

\* the guard of the pause loop, i counted from 0 as in the code
pause_after_every_message(i, group_len) == i < group_len
pause_after(i, group_len) == i < group_len - 1

\* the check at the head of create_progressive_frames
lengths_match_unchecked(audio_durations, message_coordinates) == TRUE
lengths_match(audio_durations, message_coordinates) ==
    Len(audio_durations) = Len(message_coordinates)

\* the loop over the messages of one group, from its i-th message on; it stops
\* where audio_durations[msg_idx] would raise IndexError
RECURSIVE MessageFrames(_, _, _, _)
MessageFrames(ov, a, group_messages, i) ==
    IF i > Len(group_messages) \/ group_messages[i] > Len(a.audio_durations)
    THEN <<>>
    ELSE LET duration == a.audio_durations[group_messages[i]]
             frames_for_message == int_frames(duration, a.fps)
             pause_frames == IF pause_after(i - 1, Len(group_messages))
                             THEN int_frames(a.pause_between_messages, a.fps)
                             ELSE 0
         IN Repeat(frames_for_message, create_group_frame(ov, group_messages, i, "message"))
            \o Repeat(pause_frames, create_group_frame(ov, group_messages, i, "pause"))
            \o MessageFrames(ov, a, group_messages, i + 1)

\* the loop over range(0, total_messages, messages_per_group)
RECURSIVE GroupFrames(_, _, _)
GroupFrames(ov, a, group_start) ==
    LET total_messages == Len(ov.message_coordinates)
        group_end == Min(group_start + ov.messages_per_group - 1, total_messages)
        group_messages == [j \in 1..(group_end - group_start + 1) |-> group_start + j - 1]
    IN IF group_start > total_messages \/ group_start > Len(a.audio_durations)
       THEN <<>>
       ELSE MessageFrames(ov, a, group_messages, 1)
            \o GroupFrames(ov, a, group_start + ov.messages_per_group)

\* ProgressiveMessageOverlay.create_progressive_frames: the frame files written
\* and the exception raised, if any
progressive_frames(ov, a) ==
    IF ~lengths_match(a.audio_durations, ov.message_coordinates)
    THEN [frame_paths |-> <<>>, raised |-> "ValueError"]
    ELSE LET complete == Len(a.audio_durations) >= Len(ov.message_coordinates)
             start_frames == int_frames(a.start_buffer, a.fps)
             end_frames == int_frames(a.end_buffer, a.fps)
         IN [frame_paths |-> Repeat(start_frames, create_empty_frame("start"))
                             \o GroupFrames(ov, a, 1)
                             \o (IF complete THEN Repeat(end_frames, create_empty_frame("end"))
                                 ELSE <<>>),
             raised |-> IF complete THEN "none" ELSE "IndexError"]

\* inputs of the overlay step: screenshots whose coordinates are in y order and
\* inside the image, as the screenshot service lays them out
FirstYs == {0, 30}
Heights == {10, 25}
Gaps == {-5, 20}
Slacks == {0, 40}
RECURSIVE Layout(_, _, _, _)
Layout(y, heights, gap, i) ==
    IF i > Len(heights) THEN <<>>
    ELSE <<[y |-> y, height |-> heights[i]]>> \o Layout(y + heights[i] + gap, heights, gap, i + 1)
Bottom(message_coordinates) ==
    MaxOf({message_coordinates[i].y + message_coordinates[i].height :
           i \in DOMAIN message_coordinates})
Screenshots ==
    UNION {{[height |-> Bottom(Layout(y, heights, gap, 1)) + slack,
             coordinates |-> Layout(y, heights, gap, 1)] :
              y \in FirstYs, gap \in Gaps, slack \in Slacks, heights \in [1..n -> Heights]} :
           n \in 1..MaxCoords}

Durations == {2, 5}
Buffers == {0, 5}
Pauses == {0, 3}
Args ==
    UNION {[audio_durations : [1..n -> Durations], fps : {24, FPS}, start_buffer : Buffers,
            end_buffer : Buffers, pause_between_messages : Pauses,
            messages_per_group : 1..MaxCoords] : n \in 0..MaxCoords}

\* a standalone run of main.py that has reached its overlay step
InitO ==
    /\ InitWorkers
    /\ default_mapping
    /\ use_local_storage
    /\ ov_pc = "overlay"
    /\ screenshot \in Screenshots
    /\ args \in Args
    /\ overlay = NULL
    /\ frame_files = <<>>
    /\ audio_track = <<>>
    /\ ov_exc = "none"
    /\ ov_exit = -1

\* the engine __init__ builds from an image of the given height and a
\* coordinate list: the coordinates it ends with, and the cropped image as its
\* height and the row of the screenshot it starts at
load_and_crop_base_image(height, message_coordinates, messages_per_group) ==
    LET crop == crop_whatsapp_borders(height, message_coordinates)
    IN [message_coordinates |->
            adjust_coordinates_for_cropping(message_coordinates, crop.top_padding),
        cropped_height |-> crop.height,
        crop_top |-> crop.top_padding,
        messages_per_group |-> messages_per_group]

\* ProgressiveMessageOverlay(...): __init__ keeps a reference to the caller's
\* list (self.message_coordinates = message_coordinates), loads the screenshot
\* and crops it; _adjust_coordinates_for_cropping assigns coord['y'] in the
\* dicts of that list, so the caller's list holds the shifted values too
ProgressiveMessageOverlay ==
    /\ ov_pc = "overlay"
    /\ \/ LET engine == load_and_crop_base_image(screenshot.height, screenshot.coordinates,
                                                 args.messages_per_group)
          IN /\ overlay' = engine
             /\ screenshot' = [screenshot EXCEPT !.coordinates = engine.message_coordinates]
             /\ ov_pc' = "frames"
             /\ UNCHANGED ov_exc
       \/ /\ ov_exc' = "OSError"       \* Image.open raises
          /\ ov_pc' = "except"
          /\ UNCHANGED <<overlay, screenshot>>
    /\ UNCHANGED <<args, frame_files, audio_track, ov_exit>>
    /\ UNCHANGED workerVars

\* overlay.create_progressive_frames(audio_durations, fps, start_buffer, end_buffer)
create_progressive_frames ==
    /\ ov_pc = "frames"
    /\ LET run == progressive_frames(overlay, args)
       IN /\ frame_files' = run.frame_paths
          /\ ov_exc' = run.raised
          /\ ov_pc' = IF run.raised = "none" THEN "build" ELSE "except"
    /\ UNCHANGED <<screenshot, args, overlay, audio_track, ov_exit>>
    /\ UNCHANGED workerVars

\* main(): except Exception around the overlay step: sys.exit(1)
overlay_except ==
    /\ ov_pc = "except"
    /\ ov_exit' = 1
    /\ ov_pc' = "exited"
    /\ UNCHANGED <<screenshot, args, overlay, frame_files, audio_track, ov_exc>>
    /\ UNCHANGED workerVars

\* build_video's own timing parameters, which main() leaves at their defaults
\* (1.0 s, 3.0 s and 0.5 s), in ticks
build_video_start_buffer == TicksPerSecond
build_video_end_buffer == 3 * TicksPerSecond
build_video_pause_between_messages == TicksPerSecond \div 2

make_silence(duration) == [kind |-> "silence", msg |-> 0, duration |-> duration]

\* build_video: start_silence + [tts, pause, tts, pause, ...] + end_silence
RECURSIVE interleave_tts(_, _, _)
interleave_tts(tts_durations, i, pause_between_messages) ==
    IF i > Len(tts_durations) THEN <<>>
    ELSE <<[kind |-> "tts", msg |-> i, duration |-> tts_durations[i]]>>
         \o (IF i < Len(tts_durations) /\ pause_between_messages > 0
             THEN <<make_silence(pause_between_messages)>> ELSE <<>>)
         \o interleave_tts(tts_durations, i + 1, pause_between_messages)
audio_clips(tts_durations, start_buffer, end_buffer, pause_between_messages) ==
    (IF start_buffer > 0 THEN <<make_silence(start_buffer)>> ELSE <<>>)
    \o interleave_tts(tts_durations, 1, pause_between_messages)
    \o (IF end_buffer > 0 THEN <<make_silence(end_buffer)>> ELSE <<>>)

\* main(): build_video(frame_paths, audio_paths, OUTPUT_VIDEO_PATH, background,
\* fps=FPS) and the end of the pipeline; build_video raising is sys.exit(1)
build_video ==
    /\ ov_pc = "build"
    /\ \/ /\ audio_track' = audio_clips(args.audio_durations, build_video_start_buffer,
                                         build_video_end_buffer,
                                         build_video_pause_between_messages)
          /\ ov_exit' = 0
       \/ /\ ov_exit' = 1
          /\ UNCHANGED audio_track
    /\ ov_pc' = "exited"
    /\ UNCHANGED <<screenshot, args, overlay, frame_files, ov_exc>>
    /\ UNCHANGED workerVars

NextO ==
    \/ ProgressiveMessageOverlay
    \/ create_progressive_frames
    \/ overlay_except
    \/ build_video

\* the overlay step of a standalone orchestrator run, over all bounded inputs
SpecO == InitO /\ [][NextO]_vars

\* The overlay step as main() calls it: fps=FPS, the buffers from the command
\* line (the defaults of 1 s, or 0), the pause left at the default of
\* create_progressive_frames (0.5 s), and audio clips that last a whole number
\* of frames.
MainDurations == {2, 4}
MainBuffers == {0, TicksPerSecond}
MainArgs ==
    UNION {[audio_durations : [1..n -> MainDurations], fps : {FPS}, start_buffer : MainBuffers,
            end_buffer : MainBuffers, pause_between_messages : {TicksPerSecond \div 2},
            messages_per_group : 1..MaxCoords] : n \in 0..MaxCoords}
InitM ==
    /\ InitWorkers
    /\ default_mapping
    /\ use_local_storage
    /\ ov_pc = "overlay"
    /\ screenshot \in Screenshots
    /\ args \in MainArgs
    /\ overlay = NULL
    /\ frame_files = <<>>
    /\ audio_track = <<>>
    /\ ov_exc = "none"
    /\ ov_exit = -1
SpecM == InitM /\ [][NextO]_vars

\* ---- the system ----------------------------------------------------------
\* one step of a voice_cloning consumer process
VoiceStep(p) ==
         \/ main(p)
         \/ connect(p)
         \/ consume_message(p)
         \/ consume_single_message(p)
         \/ process_single_message(p)
         \/ process_jobber_message_create(p)
         \/ process_pending_voices(p)
         \/ process_single_voice_claim(p)
         \/ process_single_voice_synthesize(p)
         \/ process_single_voice_complete(p)
         \/ process_single_voice_check(p)
         \/ process_single_voice_fail(p)
         \/ process_pending_voices_fail(p)
         \/ process_jobber_message_check(p)
         \/ delete_queue(p)
         \/ close(p)

\* one step of a video_generator consumer process
VideoStep(p) ==
         \/ main(p)
         \/ connect(p)
         \/ consume_message(p)
         \/ consume_single_message(p)
         \/ video_process_single_message(p)
         \/ create_voice_requests_in_database(p)
         \/ send_voice_request_to_jobber(p)
         \/ wait_for_voices_completion(p)
         \/ get_completed_audio_paths(p)
         \/ node_health_check(p)
         \/ get_screenshot(p)
         \/ video_overlay_step(p)
         \/ video_generator_main(p)
         \/ delete_queue(p)
         \/ close(p)

VoiceNext == \E p \in VoiceWorkers : VoiceStep(p)

VideoNext == \E p \in VideoWorkers : VideoStep(p)

Next == VoiceNext \/ VideoNext

Spec == Init /\ [][Next]_vars

\* one step of a voice_cloning process started in database mode
DatabaseStep(p) ==
         \/ start_database_mode(p)
         \/ process_pending_voices(p)
         \/ process_single_voice_claim(p)
         \/ process_single_voice_synthesize(p)
         \/ process_single_voice_complete(p)
         \/ process_single_voice_check(p)
         \/ process_single_voice_fail(p)
         \/ process_pending_voices_fail(p)
         \/ run_continuous_processing(p)

\* Worker vc1 in database mode beside worker vc2 consuming a job from its queue,
\* with signals delivered to vc1 at any moment.  Both are running OS processes:
\* a process that can take a step eventually takes it.  No signal has to come.
NextD == DatabaseStep("vc1") \/ signal_handler("vc1") \/ VoiceStep("vc2")
SpecD == Init /\ [][NextD]_vars /\ WF_vars(DatabaseStep("vc1")) /\ WF_vars(VoiceStep("vc2"))

\* the voice workers alone
SpecA == Init /\ [][VoiceNext]_vars

\* One voice worker and the orchestrator, each a running OS process: a process
\* that can take a step eventually takes it (a broker or database call returns
\* or raises, the orchestrator's wait gives up after max_wait_time).
NextB == VoiceStep("vc1") \/ VideoNext
SpecB == Init /\ [][NextB]_vars /\ WF_vars(VoiceStep("vc1")) /\ WF_vars(VideoNext)

TypeOK ==
    /\ Len(voices) <= MaxRows
    /\ \A r \in DOMAIN voices : voices[r].status \in Statuses
    /\ rows_reserved \in 0..MaxRows
    /\ faults \in 0..MaxFaults
    /\ Len(claim_log) = Len(voices)

\* ---- properties of the voices table --------------------------------------
VoicesOf(video_id) == {r \in DOMAIN voices : voices[r].video_id = video_id}

\* C1: start_processing_voice has a single winner: over all calls made on one
\* row, by any worker in any interleaving, at most one returned True, and a
\* call that returned True found the row 'pending' just before its update.
C1_SingleWinner ==
    \A r \in DOMAIN claim_log :
        /\ Len(claim_log[r]) <= 1
        /\ \A j \in DOMAIN claim_log[r] : claim_log[r][j] = "pending"

\* two workers hold the same row in their snapshots; q won it and is working on
\* it, p has called start_processing_voice on it since and was turned away
C1_Witness ==
    \E p, q \in VoiceWorkers :
        /\ p # q
        /\ pc[q] = "complete"
        /\ pc[p] = "claim" /\ loc[p].k > 1
        /\ loc[p].pending[loc[p].k - 1] = voice_id(q)
        /\ voices[voice_id(q)].status = "processing"
        /\ claim_log[voice_id(q)] = <<"pending">>

\* C2: a row's status changes only along pending -> processing ->
\* (completed | failed); a completed or failed row never changes status again.
C2_Lifecycle ==
    [][\A r \in DOMAIN voices :
          voices'[r].status # voices[r].status =>
             <<voices[r].status, voices'[r].status>> \in
                {<<"pending", "processing">>, <<"processing", "completed">>,
                 <<"processing", "failed">>}]_vars

\* C3: check_all_voices_completed(video_id) never goes from true to false.
C3_BarrierMonotonic ==
    [][\A v \in Videos :
          check_all_voices_completed(voices, v) => check_all_voices_completed(voices', v)]_vars

\* C4: every 'completed' row has a non-null output_audio_path.
C4_CompletedHasPath ==
    \A r \in DOMAIN voices :
        voices[r].status = "completed" => voices[r].output_audio_path # NULL

\* a row completed with the local path because no remote key came back
C4_Witness ==
    \E r \in DOMAIN voices :
        /\ voices[r].status = "completed"
        /\ voices[r].remote_storage_path = NULL
        /\ voices[r].output_audio_path = "local"

\* C5: every 'failed' row has a non-null error_message.
C5_FailedHasMessage ==
    \A r \in DOMAIN voices :
        voices[r].status = "failed" => voices[r].error_message # NULL

\* a row failed by the except of process_pending_voices (it was never claimed)
\* next to a row failed by the except of process_single_voice
C5_Witness ==
    \E r, t \in DOMAIN voices :
        /\ voices[r].status = "failed" /\ claim_log[r] = <<>>
        /\ voices[t].status = "failed" /\ claim_log[t] # <<>>

\* C6: check_all_voices_completed(video_id) is true exactly when the video has
\* at least one row and every one of its rows is 'completed'.
C6_BarrierDefinition ==
    \A v \in Videos \cup {NULL} :
        check_all_voices_completed(voices, v) <=>
            /\ VoicesOf(v) # {}
            /\ \A r \in VoicesOf(v) : voices[r].status = "completed"

\* one video with every row completed (true), and another that a job named but
\* that has a row still not completed (false)
C6_Witness ==
    \E v, w \in Videos :
        /\ VoicesOf(v) # {} /\ check_all_voices_completed(voices, v)
        /\ VoicesOf(w) # {} /\ ~check_all_voices_completed(voices, w)
        /\ \E r \in VoicesOf(w) : voices[r].status \in {"processing", "failed"}

\* ---- properties of the queue consumer shell ------------------------------
Called(p, call) == \E j \in DOMAIN trace[p] : trace[p][j] = call

\* C7: a run that connects goes connect, get (with its ack or nack when a body
\* came back), delete_queue, close: also when the get returned no message.
C7_ShellOrder ==
    \A p \in Procs :
        Called(p, "close") =>
            trace[p] \in {<<"connect", "basic_get", "queue_delete", "close">>,
                          <<"connect", "basic_get", "basic_ack", "queue_delete", "close">>,
                          <<"connect", "basic_get", "basic_nack", "queue_delete", "close">>}

\* C8: delete_queue is called before close on the error paths too: when a
\* connected run reaches its close with an exception under way (sys.exit inside
\* the orchestrator's pipeline, the KeyError of a message without 'id'), it has
\* called delete_queue.
C8_DeleteOnErrorPaths ==
    \A p \in Procs :
        pc[p] = "close" /\ Called(p, "connect") /\ exc[p] # "none" =>
            Called(p, "queue_delete")

\* C9: a body that is not JSON is nacked without requeue, and the process still
\* deletes the queue and exits with status 0.
C9_MalformedBody ==
    \A p \in Procs :
        Called(p, "basic_nack") /\ pc[p] = "exited" =>
            /\ queue[p] = "deleted"
            /\ exit_code[p] = 0

\* C10: a process that could not connect to the broker exits non-zero.
C10_ConnectFailureFatal ==
    \A p \in Procs :
        pc[p] = "exited" /\ ~Called(p, "connect") => exit_code[p] # 0

\* number of times a process has made a broker call
Count(p, call) == Cardinality({j \in DOMAIN trace[p] : trace[p][j] = call})

\* C11: a consumer process makes at most one basic_get over its whole life, and
\* once started it terminates, whatever became of the message.
C11_OneMessageThenExit ==
    /\ [](\A p \in Procs : Count(p, "basic_get") <= 1)
    /\ \A p \in Procs : (pc[p] # "idle") ~> (pc[p] = "exited")

\* a voice worker and an orchestrator have both got their one message and gone,
\* the orchestrator through sys.exit
C11_Witness ==
    /\ pc["vc1"] = "exited" /\ Count("vc1", "basic_get") = 1 /\ Called("vc1", "queue_delete")
    /\ pc["vg1"] = "exited" /\ Count("vg1", "basic_get") = 1 /\ exit_code["vg1"] = 1

\* a voice job that names a video and carries an empty 'messages' list
EmptyJob(m) == m.kind = "dict" /\ m.has_id /\ m.video_id \in Videos /\ m.n = 0

\* C12: a voice job with an empty 'messages' list is refused and its handling
\* leaves the voices table as it was: no step of the process that holds such a
\* job changes the table, and its handler returns a failure at once.
C12_EmptyJobRefused ==
    [][\A p \in VoiceWorkers :
          EmptyJob(message[p]) /\ (pc'[p] # pc[p] \/ loc'[p] # loc[p]) =>
             /\ voices' = voices
             /\ pc[p] = "process" => (pc'[p] = "delete" /\ result'[p] = "failure")]_vars

\* the handler has refused an empty job while the table holds another job's rows
C12_Witness ==
    \E p \in VoiceWorkers :
        /\ EmptyJob(message[p]) /\ pc[p] = "delete" /\ result[p] = "failure"
        /\ voices # <<>>

\* C13: a sweep that starts when every row is already 'completed' is a no-op:
\* its snapshot is empty, so it goes straight to the end of the job without
\* touching a row, and the job then reports success.
C13_SweepNoOp ==
    [][\A p \in VoiceWorkers :
          /\ voices # <<>>
          /\ \A r \in DOMAIN voices : voices[r].status = "completed"
          /\ faults' = faults
          => /\ (pc[p] = "fetch" /\ pc'[p] # "fetch") =>
                    (voices' = voices /\ loc'[p].pending = <<>> /\ pc'[p] = "final")
             /\ (pc[p] = "final" /\ pc'[p] # "final") =>
                    (voices' = voices /\ result'[p] = "success")]_vars

\* a worker whose rows were all completed by the other worker before its own
\* sweep began: its snapshot came back empty
C13_Witness ==
    \E p \in VoiceWorkers :
        /\ pc[p] = "final" /\ loc[p].pending = <<>>
        /\ Len(voices) >= 2
        /\ \A r \in DOMAIN voices : voices[r].status = "completed"

\* C14: a failed upload is not fatal.  In remote-storage mode, with a voice
\* mapping at hand, process_single_voice goes on to the completion whatever the
\* upload returned; when it returned nothing the row is completed with the local
\* path and is_local_storage = true (unless the completing UPDATE itself raises).
C14_UploadFailureNonFatal ==
    [][\A p \in VoiceWorkers :
          ~use_local_storage /\ faults' = faults =>
             /\ (pc[p] = "synthesize" /\ default_mapping /\ pc'[p] # "synthesize") =>
                    /\ pc'[p] = "complete"
                    /\ loc'[p].remote_path = NULL =>
                           (loc'[p].final_path = "local" /\ loc'[p].is_local)
             /\ (pc[p] = "complete" /\ loc[p].remote_path = NULL /\ pc'[p] # "complete") =>
                    /\ voices'[voice_id(p)].status = "completed"
                    /\ voices'[voice_id(p)].output_audio_path = "local"
                    /\ voices'[voice_id(p)].is_local_storage
                    /\ voices'[voice_id(p)].remote_storage_path = NULL]_vars

\* remote-storage mode: one row completed with the local path after its upload
\* failed, next to a row whose upload went through
C14_Witness ==
    /\ ~use_local_storage
    /\ \E r, t \in DOMAIN voices :
          /\ voices[r].status = "completed" /\ voices[r].output_audio_path = "local"
          /\ voices[r].is_local_storage
          /\ voices[t].status = "completed" /\ voices[t].output_audio_path = "remote"
          /\ ~voices[t].is_local_storage

\* C15: a row whose processing raises does not abort its peers.  When an except
\* handler of the sweep has run for a row, the sweep goes on with the next row
\* (or retries the failure in the outer handler), a handler that completes
\* leaves the row 'failed' with the error's text, and a video that has a row
\* failed this way no longer reports all_voices_completed.
C15_FailureIsolated ==
    [][/\ \A p \in VoiceWorkers :
             (pc[p] \in {"fail_inner", "fail_outer"} /\ pc'[p] # pc[p]) =>
                /\ pc'[p] \in {"claim", "final", "fail_outer"}
                /\ pc'[p] # "fail_outer" =>
                      /\ voices'[voice_id(p)].status = "failed"
                      /\ voices'[voice_id(p)].error_message = loc[p].err
       /\ \A v \in Videos :
             (\E r \in VoicesOf(v) : voices[r].status = "failed") =>
                ~check_all_voices_completed(voices', v)]_vars

\* ---- properties of the overlay engine -------------------------------------
\* round(n / d) as Python rounds: to the nearest integer, a tie to the even one
Round(n, d) ==
    LET q == n \div d
        r == n % d
    IN IF 2 * r < d THEN q
       ELSE IF 2 * r > d THEN q + 1
       ELSE q + (q % 2)

RECURSIVE SumSeq(_)
SumSeq(s) == IF s = <<>> THEN 0 ELSE s[1] + SumSeq(Tail(s))

\* the sizes of the groups range(0, total, messages_per_group) cuts total messages into
RECURSIVE GroupSizes(_, _)
GroupSizes(total, messages_per_group) ==
    IF total <= 0 THEN <<>>
    ELSE <<Min(messages_per_group, total)>>
         \o GroupSizes(total - messages_per_group, messages_per_group)

\* size of the group that starts at message group_start
GroupSize(ov, group_start) ==
    Min(ov.messages_per_group, Len(ov.message_coordinates) - group_start + 1)

\* create_progressive_frames has returned its frame list
FramesDone == ov_pc \in {"build", "exited"} /\ ov_exc = "none"

\* C16: the number of frames create_progressive_frames emits is
\* round(fps * (start_buffer + sum of durations + pause * sum over the groups of
\* (group size - 1) + end_buffer)), for every input with matching lengths
C16_FrameCount ==
    FramesDone =>
        LET sizes == GroupSizes(Len(overlay.message_coordinates), overlay.messages_per_group)
            timeline == args.start_buffer + SumSeq(args.audio_durations)
                        + args.pause_between_messages * (SumSeq(sizes) - Len(sizes))
                        + args.end_buffer
        IN Len(frame_files) = Round(args.fps * timeline, TicksPerSecond)

\* C17: when the number of audio durations differs from the number of message
\* coordinates, create_progressive_frames raises with no frame file written and
\* the run goes to its exit with status 1, never to build_video
C17_MismatchRefused ==
    (/\ Len(args.audio_durations) # Len(screenshot.coordinates)
     /\ ov_pc \notin {"overlay", "frames"}
     /\ ov_exc # "OSError")
    => /\ frame_files = <<>>
       /\ ov_exc = "ValueError"
       /\ ov_pc \in {"except", "exited"}
       /\ ov_pc = "exited" => ov_exit = 1

C17_Witness ==
    /\ ov_exc = "ValueError"
    /\ Len(args.audio_durations) = Len(screenshot.coordinates) - 1
    /\ ov_pc = "exited"
    /\ ov_exit = 1
    /\ frame_files = <<>>

\* C18: the crop window of every reveal frame lies inside the cropped image and
\* holds the whole bounding box of each message the frame reveals
C18_CropWindow ==
    \A f \in DOMAIN frame_files :
        LET frame == frame_files[f]
        IN frame.kind = "reveal" =>
            /\ 0 <= frame.top_y
            /\ frame.top_y <= frame.bottom_y
            /\ frame.bottom_y <= overlay.cropped_height
            /\ \A m \in frame.group_start..(frame.group_start + frame.messages_shown - 1) :
                  /\ frame.top_y <= overlay.message_coordinates[m].y
                  /\ overlay.message_coordinates[m].y + overlay.message_coordinates[m].height
                       <= frame.bottom_y

\* a screenshot whose top was cropped away: a frame revealing two messages of
\* the first group, and a frame of a later group whose window starts below the
\* top and is clamped at the bottom of the cropped image
C18_Witness ==
    /\ FramesDone
    /\ overlay.crop_top > 0
    /\ \E f \in DOMAIN frame_files :
          /\ frame_files[f].kind = "reveal"
          /\ frame_files[f].messages_shown = 2
          /\ frame_files[f].bottom_y < overlay.cropped_height
    /\ \E f \in DOMAIN frame_files :
          /\ frame_files[f].kind = "reveal"
          /\ frame_files[f].group_start > 1
          /\ frame_files[f].top_y > 0
          /\ frame_files[f].bottom_y = overlay.cropped_height

\* C19: pause frames follow the reveal frames of a message iff the message is
\* not the last of its group: every pause frame continues a message that is not
\* the last of its group, each such message gets int(pause * fps) of them, and
\* the frames of a group's last message are followed by the next group's
\* frames or by the end buffer
C19_PauseOnlyInsideGroup ==
    FramesDone =>
        /\ \A f \in DOMAIN frame_files :
              frame_files[f].segment = "pause" =>
                 frame_files[f].messages_shown < GroupSize(overlay, frame_files[f].group_start)
        /\ \A f \in DOMAIN frame_files :
              (/\ f < Len(frame_files)
               /\ frame_files[f].segment = "message"
               /\ frame_files[f].messages_shown = GroupSize(overlay, frame_files[f].group_start))
              => \/ frame_files[f + 1] = frame_files[f]
                 \/ frame_files[f + 1].segment = "end"
                 \/ /\ frame_files[f + 1].kind = "reveal"
                    /\ frame_files[f + 1].group_start > frame_files[f].group_start
        /\ \A g \in DOMAIN overlay.message_coordinates, k \in 1..MaxCoords :
              (/\ (g - 1) % overlay.messages_per_group = 0
               /\ k <= GroupSize(overlay, g))
              => Cardinality({f \in DOMAIN frame_files :
                                 /\ frame_files[f].segment = "pause"
                                 /\ frame_files[f].group_start = g
                                 /\ frame_files[f].messages_shown = k})
                 = IF k < GroupSize(overlay, g)
                   THEN int_frames(args.pause_between_messages, args.fps)
                   ELSE 0
        /\ overlay.messages_per_group = 1
              => \A f \in DOMAIN frame_files : frame_files[f].segment # "pause"

\* three messages in groups of two: a pause inside the first group, and the
\* second message's frames followed at once by the second group's
C19_Witness ==
    /\ FramesDone
    /\ Len(overlay.message_coordinates) = 3
    /\ overlay.messages_per_group = 2
    /\ \E f \in DOMAIN frame_files :
          /\ frame_files[f].segment = "pause"
          /\ frame_files[f].messages_shown = 1
    /\ \E f \in DOMAIN frame_files :
          /\ f < Len(frame_files)
          /\ frame_files[f].segment = "message"
          /\ frame_files[f].group_start = 1
          /\ frame_files[f].messages_shown = 2
          /\ frame_files[f + 1].segment = "message"
          /\ frame_files[f + 1].group_start = 3

\* ---- mock mode --------------------------------------------------------------
\* C20: a voice worker in mock mode has, when its handler has returned, one
\* completed row in the voices table for each message of the built-in fixture,
\* and it exits 0
C20_MockFixtureRows ==
    \A p \in VoiceWorkers :
        (body[p].kind = "mock" /\ pc[p] = "close")
        => /\ Cardinality({r \in DOMAIN voices : voices[r].status = "completed"})
                >= MockMessage.n
           /\ ExitStatus(exc[p]) = 0

\* ---- the orchestrator and the voice worker on one video ---------------------
\* voice worker vc holds the job the orchestrator vg published, and nothing else
\* has run: no other voice worker was started and no database call has raised
HappyPath(vg, vc) ==
    /\ faults = 0
    /\ \A o \in VoiceWorkers \ {vc} : pc[o] = "idle"
    /\ [video_id |-> loc[vg].video_id, n |-> loc[vg].n] \in jobber_requests
    /\ message[vc].kind = "dict"
    /\ message[vc].has_id
    /\ message[vc].video_id = loc[vg].video_id
    /\ message[vc].n = loc[vg].n

\* C21: on the happy path for one video request with N messages, when the
\* orchestrator's wait has seen the completion barrier true exactly N rows exist
\* for the video, all of them completed
C21_HappyPathRowCount ==
    \A vg \in VideoWorkers, vc \in VoiceWorkers :
        (pc[vg] = "vg_paths" /\ HappyPath(vg, vc))
        => /\ Cardinality(VoicesOf(loc[vg].video_id)) = loc[vg].n
           /\ \A r \in VoicesOf(loc[vg].video_id) : voices[r].status = "completed"

\* ---- the end of the frame sequence ------------------------------------------
\* all messages are in one group and the end buffer is at least one frame long
OneGroupWithEndBuffer ==
    /\ FramesDone
    /\ overlay.messages_per_group >= Len(overlay.message_coordinates)
    /\ int_frames(args.end_buffer, args.fps) > 0

RevealFrames == {f \in DOMAIN frame_files : frame_files[f].kind = "reveal"}

\* C22 as stated: with all messages in one group and a positive end buffer, the
\* last frame of the sequence shows all the messages
C22_LastFrameShowsAll ==
    OneGroupWithEndBuffer
    => /\ frame_files # <<>>
       /\ frame_files[Len(frame_files)].kind = "reveal"
       /\ frame_files[Len(frame_files)].messages_shown = Len(overlay.message_coordinates)

\* C22 amended: with all messages in one group, a positive end buffer and a last
\* message at least one frame long, the last reveal frame shows all the
\* messages, and it is followed by int(end_buffer * fps) empty frames, so the
\* last frame of the sequence shows no message
C22_LastRevealShowsAll ==
    (/\ OneGroupWithEndBuffer
     /\ int_frames(args.audio_durations[Len(args.audio_durations)], args.fps) > 0)
    => /\ RevealFrames # {}
       /\ frame_files[MaxOf(RevealFrames)].messages_shown = Len(overlay.message_coordinates)
       /\ Len(frame_files) - MaxOf(RevealFrames) = int_frames(args.end_buffer, args.fps)
       /\ \A f \in (MaxOf(RevealFrames) + 1)..Len(frame_files) :
             /\ frame_files[f].kind = "empty"
             /\ frame_files[f].messages_shown = 0

\* three messages in one group: a frame showing all three, then the end buffer
C22_Witness ==
    /\ OneGroupWithEndBuffer
    /\ Len(overlay.message_coordinates) = 3
    /\ int_frames(args.audio_durations[3], args.fps) > 0
    /\ frame_files[Len(frame_files)].kind = "empty"
    /\ \E f \in RevealFrames : frame_files[f].messages_shown = 3

\* ---- creation of voice rows ---------------------------------------------------
\* C23: a create_voice_request call that returns inserts one fresh row, pending
\* and of the given video, leaves every other row as it is, and the new row is
\* the last one of get_pending_voice_requests; so k calls for a fresh video with
\* no claim in between leave exactly k pending rows of it, in creation order
C23_CreateInsertsPending ==
    [][\A p \in VoiceWorkers :
          (/\ pc[p] = "create"
           /\ loc'[p].voice_ids = loc[p].voice_ids + 1)
          => /\ Len(voices') = Len(voices) + 1
             /\ SubSeq(voices', 1, Len(voices)) = voices
             /\ voices'[Len(voices')] = [NewVoiceRow(loc[p].video_id, loc[p].i + 1) EXCEPT !.status = "pending"]
             /\ get_pending_voice_requests(voices')
                  = Append(get_pending_voice_requests(voices), Len(voices'))]_vars

\* two rows created for one video and not yet claimed: both pending, in order
C23_Witness ==
    /\ Len(voices) = 2
    /\ voices[1].video_id = voices[2].video_id
    /\ get_pending_voice_requests(voices) = <<1, 2>>
    /\ \E p \in VoiceWorkers : pc[p] = "fetch" /\ loc[p].voice_ids = 1

\* ---- the orchestrator's wait ------------------------------------------------
\* C24: the orchestrator's completion wait always ends; it ends with success
\* only on a poll that sees total > 0, failed = 0 and completed = total, and a
\* poll that sees a failed row, or the end of the maximum wait, ends it with
\* failure (main() calls sys.exit(1))
C24_WaitTerminates ==
    /\ [][\A p \in VideoWorkers :
             pc[p] = "vg_wait" =>
                LET status == get_video_voices_status(voices, loc[p].video_id)
                IN /\ pc'[p] \in {"vg_wait", "vg_paths", "close"}
                   /\ pc'[p] = "vg_paths"
                        => /\ status.total_voices > 0
                           /\ status.failed_voices = 0
                           /\ status.completed_voices = status.total_voices
                   /\ pc'[p] = "close" => exc'[p] = "SystemExit"
                   /\ (status.failed_voices > 0 /\ pc'[p] # pc[p]) => pc'[p] = "close"]_vars
    /\ \A p \in VideoWorkers : (pc[p] = "vg_wait") ~> (pc[p] # "vg_wait")

\* the wait has ended with success on two completed rows
C24_Witness ==
    \E p \in VideoWorkers :
        /\ pc[p] = "vg_paths"
        /\ get_video_voices_status(voices, loc[p].video_id).completed_voices = 2

\* ---- who writes the voices table --------------------------------------------
\* C25: the orchestrator only reads the voices table: no step of a
\* video_generator process inserts, updates or deletes a row
C25_OrchestratorReadOnly ==
    [][\A p \in VideoWorkers : pc'[p] # pc[p] => voices' = voices]_vars

\* C26: a voice worker writes 'completed' or 'failed' to a row only if its own
\* start_processing_voice call on that row returned True
C26_WritesOnlyToOwnRows ==
    [][\A p \in VoiceWorkers, r \in DOMAIN voices :
          (/\ pc'[p] # pc[p]
           /\ voices'[r].status # voices[r].status
           /\ voices'[r].status \in {"completed", "failed"})
          => loc[p].claimed /\ voice_id(p) = r]_vars

\* C27: a voice worker that created rows for its job reports an outcome only
\* when all rows of its video are completed or one of them is failed (no
\* database call having raised)
C27_NoOutcomeWhileUnfinished ==
    \A p \in VoiceWorkers :
        (pc[p] = "delete" /\ faults = 0 /\ loc[p].voice_ids > 0)
        => \/ check_all_voices_completed(voices, loc[p].video_id)
           \/ get_video_voices_status(voices, loc[p].video_id).failed_voices > 0

\* C28: a voice job message without 'video_id' is rejected: its handler returns
\* a failure (and nothing was synthesized for it)
C28_MissingVideoIdRejected ==
    \A p \in VoiceWorkers :
        (pc[p] = "delete" /\ message[p].kind = "dict" /\ message[p].video_id = ABSENT)
        => result[p] = "failure"

\* ---- acknowledgement ----------------------------------------------------------
\* positions inside _process_single_message and after its return
HandlerPcs == {"process", "create", "fetch", "claim", "synthesize", "complete", "check",
               "fail_inner", "fail_outer", "final", "vg_create", "vg_send", "vg_wait",
               "vg_paths", "vg_health", "vg_shot", "vg_overlay", "vg_rest", "delete"}

\* C29: the message taken from the broker is acknowledged before work begins:
\* whenever a process is in its handler the basic_ack of its message has been
\* made and the message is off the queue, whatever happens in the handler
C29_AckBeforeWork ==
    \A p \in Procs :
        (pc[p] \in HandlerPcs /\ body[p].kind # "mock")
        => /\ Called(p, "basic_ack")
           /\ queue[p] = "empty"
           /\ \A j \in DOMAIN trace[p] : trace[p][j] # "basic_nack"

\* a voice worker in the except of process_single_voice, its message acknowledged
C29_Witness ==
    \E p \in VoiceWorkers :
        /\ pc[p] = "fail_inner"
        /\ trace[p] = <<"connect", "basic_get", "basic_ack">>
        /\ queue[p] = "empty"

\* ---- a row without a voice mapping --------------------------------------------
\* A step of a worker on a claimed row that has no mapping of its own while no
\* default mapping exists, the database call of the step not raising: the
\* mapping lookup finds nothing, no output path is made and nothing is
\* synthesized or uploaded, and the except of process_single_voice marks the
\* row failed with error_message `text`
NoMappingStep(text) ==
    \A p \in VoiceWorkers :
        /\ (/\ pc[p] = "synthesize"
            /\ ~default_mapping
            /\ pc'[p] # pc[p]
            /\ faults' = faults)
           => /\ pc'[p] = "fail_inner"
              /\ loc'[p].err = text
              /\ loc'[p].final_path = NULL
              /\ loc'[p].remote_path = NULL
              /\ voices' = voices
        /\ (/\ pc[p] = "fail_inner"
            /\ ~default_mapping
            /\ loc[p].err # "db error"
            /\ pc'[p] # pc[p]
            /\ faults' = faults)
           => /\ voices'[voice_id(p)].status = "failed"
              /\ voices'[voice_id(p)].error_message = text
              /\ voices'[voice_id(p)].output_audio_path = voices[voice_id(p)].output_audio_path

C31_PathsInTranscriptOrder ==
    \A p \in VideoWorkers, vc \in VoiceWorkers :
        (loc[p].audio_paths # <<>> /\ HappyPath(p, vc))
        => /\ Len(loc[p].audio_paths) = loc[p].n
           /\ \A i \in DOMAIN loc[p].audio_paths :
                 voices[loc[p].audio_paths[i]].text_content = i
\* ---- the bottom of the crop window -----------------------------------------
\* the last message of the group that starts at group_start
GroupEnd(group_start) ==
    Min(group_start + overlay.messages_per_group - 1, Len(overlay.message_coordinates))

\* C32: a frame that reveals k messages of group G ends PADDING pixels below its
\* last revealed message only when that message is the last of G; when k < |G|
\* its window ends at the integer midpoint between the bottom of the last
\* revealed message and the top of the next one (clamped to the cropped image),
\* so the window holds no row of the next message
C32_BottomBoundary ==
    \A f \in DOMAIN frame_files :
        LET frame == frame_files[f]
            last == frame.group_start + frame.messages_shown - 1
            last_coord == overlay.message_coordinates[last]
            current_bottom == last_coord.y + last_coord.height
        IN frame.kind = "reveal" =>
            IF last = GroupEnd(frame.group_start)
            THEN frame.bottom_y = Min(overlay.cropped_height, current_bottom + PADDING)
            ELSE LET next_top == overlay.message_coordinates[last + 1].y
                 IN /\ frame.bottom_y =
                         Min(overlay.cropped_height,
                             current_bottom + ((next_top - current_bottom) \div 2))
                    /\ next_top >= current_bottom => frame.bottom_y <= next_top
\* ---- the screenshot request ----------------------------------------------------
\* C33: get_screenshot_with_coordinates returns only with a coordinate list
\* that is not empty and has one entry per message of the transcript; with any
\* other response it raises
C33_ScreenshotValidated ==
    \A p \in VideoWorkers :
        loc[p].coordinates # -1
        => /\ loc[p].coordinates > 0
           /\ loc[p].coordinates = loc[p].n
\* ---- the gate before the screenshot request ------------------------------------
\* C35: the orchestrator posts the screenshot request only after the completion
\* wait returned True and the screenshot service's health check returned True,
\* and the health check is the call just before it; when the health check is
\* False the orchestrator leaves with sys.exit(1) having made no other call: no
\* screenshot request, no frames, no build_video
C35_ScreenshotGated ==
    \A p \in VideoWorkers :
        LET calls == loc[p].calls IN
        /\ calls # <<>> => calls[1] = "health_check" /\ loc[p].barrier
        /\ (\E j \in DOMAIN calls : calls[j] = "generate-screenshots")
             => /\ loc[p].node_healthy
                /\ calls[2] = "generate-screenshots"
        /\ (calls # <<>> /\ ~loc[p].node_healthy)
             => /\ calls = <<"health_check">>
                /\ pc[p] = "close"
                /\ exc[p] = "SystemExit"

\* the voices of the video are complete and collected, the health check was
\* False, and the orchestrator is leaving
C35_Witness ==
    \E p \in VideoWorkers :
        /\ loc[p].barrier
        /\ loc[p].audio_paths # <<>>
        /\ loc[p].calls = <<"health_check">>
        /\ ~loc[p].node_healthy
        /\ pc[p] = "close"
\* ---- shutdown of a worker in database mode -----------------------------------
\* a signal has been delivered to worker p, started in database mode
Signalled(p) == database_mode[p] /\ ~running[p]

\* C34: after SIGTERM or SIGINT is delivered to a voice worker in database
\* mode, the worker starts no further sweep once the current one has finished
\* (the flag is tested between the iterations of the loop), and the process
\* eventually stops
C34_SignalStopsWorker ==
    /\ [][\A p \in VoiceWorkers :
             (Signalled(p) /\ pc[p] = "db_sleep") => pc'[p] # "fetch"]_vars
    /\ \A p \in VoiceWorkers : Signalled(p) ~> (pc[p] = "exited")
\* ---- one synthesis per row ------------------------------------------------------
\* positions of process_single_voice between the claim and the end of the row's
\* handling: mapping, synthesis, upload, completion
WorkPcs == {"synthesize", "complete", "check"}

\* C36: each voice row is synthesized and completed at most once, and only by a
\* worker whose claim on it succeeded: a worker at work on a row holds the
\* row's only successful claim, no two workers are at work on the same row, a
\* worker starts work on a row only in the step in which its claim is the first
\* to succeed on that row, and a row becomes 'completed' only by the completion
\* call of the worker that claimed it
C36_SynthesizedOnce ==
    /\ [](\A p \in VoiceWorkers :
            pc[p] \in WorkPcs
            => /\ loc[p].claimed
               /\ Len(claim_log[voice_id(p)]) = 1
               /\ \A q \in VoiceWorkers \ {p} :
                     pc[q] \in WorkPcs => voice_id(q) # voice_id(p))
    /\ [][\A p \in VoiceWorkers :
             /\ (pc[p] \notin WorkPcs /\ pc'[p] \in WorkPcs)
                  => /\ pc[p] = "claim" /\ pc'[p] = "synthesize"
                     /\ voice_id(p) = loc'[p].pending[loc'[p].k]
                     /\ claim_log[voice_id(p)] = <<>>
                     /\ Len(claim_log'[voice_id(p)]) = 1
             /\ (pc[p] \in WorkPcs /\ pc'[p] \in WorkPcs /\ pc'[p] # pc[p])
                  => /\ <<pc[p], pc'[p]>> \in {<<"synthesize", "complete">>, <<"complete", "check">>}
                     /\ voice_id(p) = loc'[p].pending[loc'[p].k]]_vars
    /\ [][\A r \in DOMAIN voices :
             (voices[r].status # "completed" /\ voices'[r].status = "completed")
             => \E p \in VoiceWorkers :
                   /\ pc[p] = "complete" /\ pc'[p] = "check"
                   /\ voice_id(p) = r
                   /\ loc[p].claimed]_vars

\* a row completed by the worker that claimed it, while the other worker, which
\* held the same row in its snapshot, has passed it without working on it
C36_Witness ==
    \E p, q \in VoiceWorkers :
        /\ p # q
        /\ pc[q] = "check"
        /\ voices[voice_id(q)].status = "completed"
        /\ claim_log[voice_id(q)] = <<"pending">>
        /\ \E j \in 1..(loc[p].k - 1) : loc[p].pending[j] = voice_id(q)
        /\ pc[p] \in {"claim", "final"}
\* ---- claimed rows are finished ---------------------------------------------------
\* worker p is handling row r, which it claimed: it is between the claim and the
\* completion, or in the except of process_single_voice
HandledBy(r, p) ==
    /\ pc[p] \in WorkPcs \cup {"fail_inner"}
    /\ voice_id(p) = r
    /\ loc[p].claimed

\* the status of row r, "none" while the row does not exist
StatusOf(r) == IF r \in DOMAIN voices THEN voices[r].status ELSE "none"

\* C37: while no database call raises and the worker processes keep running,
\* every row in 'processing' is in the hands of the worker that claimed it, so
\* none is left in 'processing' by a sweep that has returned, and every row
\* that is in 'processing' eventually becomes 'completed' or 'failed'
C37_ProcessingLeaves ==
    /\ [](faults = 0 =>
            \A r \in DOMAIN voices :
                voices[r].status = "processing" => \E p \in VoiceWorkers : HandledBy(r, p))
    /\ \/ <>(faults > 0)
       \/ \A r \in 1..MaxRows :
             (StatusOf(r) = "processing") ~> (StatusOf(r) \in {"completed", "failed"})

\* no database call has raised; one worker has failed a row for want of a voice
\* mapping and returned from its sweep, another row was completed
C37_Witness ==
    /\ faults = 0
    /\ \E r \in DOMAIN voices :
          voices[r].status = "failed" /\ claim_log[r] = <<"pending">>
    /\ \E p \in VoiceWorkers : pc[p] \in {"final", "db_sleep"} /\ loc[p].k > 1
\* ---- frames against the audio track ----------------------------------------------
\* index, counted from 0, of the first frame that reveals message i
FirstRevealFrame(i) ==
    MinOf({f \in DOMAIN frame_files :
              /\ frame_files[f].kind = "reveal"
              /\ frame_files[f].group_start + frame_files[f].messages_shown - 1 = i}) - 1

\* start of message i's clip in the audio track, in ticks
AudioStart(i) ==
    LET at == CHOOSE j \in DOMAIN audio_track :
                  audio_track[j].kind = "tts" /\ audio_track[j].msg = i
    IN SumSeq([j \in 1..(at - 1) |-> audio_track[j].duration])

\* C38: in the video main() produces, the first frame that reveals message i is
\* shown at the moment message i's audio starts: its index equals fps times the
\* start time of the clip in the track build_video made, for every message,
\* also with more than one group and with other start and end buffers
C38_FramesMatchAudio ==
    (ov_pc = "exited" /\ ov_exit = 0)
    => \A i \in DOMAIN args.audio_durations :
          FirstRevealFrame(i) * TicksPerSecond = args.fps * AudioStart(i)
\* ---- the engine and the caller's coordinate list --------------------------------
\* C40: constructing the overlay engine leaves the caller's coordinate list as
\* it was, so a second engine built from the same screenshot and the same list
\* has the same cropped image and coordinates as the first and plans the same
\* frames
C40_ConstructionLeavesList ==
    [][(ov_pc = "overlay" /\ ov_pc' = "frames")
       => LET second == load_and_crop_base_image(screenshot'.height, screenshot'.coordinates,
                                                 args.messages_per_group)
          IN /\ screenshot'.coordinates = screenshot.coordinates
             /\ second = overlay'
             /\ progressive_frames(second, args) = progressive_frames(overlay', args)]_vars
\* ---- a job of several messages ----------------------------------------------
\* messages of a job that has more than one
BatchMsgs == MaxMsgs + 1

\* The job runner has left a job of BatchMsgs messages for video v1 on the queue
\* of worker vc1 and started the process; worker vc2 is not started yet.
InitN ==
    /\ InitOverlayOff
    /\ voices = <<>>
    /\ default_mapping \in BOOLEAN
    /\ faults = 0
    /\ video_ids = {"v1"}
    /\ rows_reserved = BatchMsgs
    /\ jobber_requests = {}
    /\ pc = [p \in Procs |-> IF p = "vc1" THEN "connect" ELSE "idle"]
    /\ queue = [p \in Procs |-> IF p = "vc1" THEN "ready" ELSE "empty"]
    /\ body = [p \in Procs |-> IF p = "vc1" THEN Body("dict", TRUE, "v1", BatchMsgs)
                                ELSE NoMessage]
    /\ use_local_storage \in BOOLEAN
    /\ trace = [p \in Procs |-> <<>>]
    /\ message = [p \in Procs |-> NoMessage]
    /\ result = [p \in Procs |-> "none"]
    /\ exc = [p \in Procs |-> "none"]
    /\ exit_code = [p \in Procs |-> -1]
    /\ loc = [p \in Procs |-> Loc0]
    /\ claim_log = <<>>
    /\ running = [p \in Procs |-> p = "vc1"]
    /\ database_mode = [p \in Procs |-> FALSE]

SpecN == InitN /\ [][VoiceNext]_vars

\* C39: a voice worker that reports success for a job of N messages leaves a
\* 'completed' row of the job's video_id for every one of the N messages; a
\* message whose row could not be created never ends in a success
C39_SuccessMeansAllCompleted ==
    \A p \in VoiceWorkers :
        (/\ result[p] = "success"
         /\ message[p].kind = "dict"
         /\ message[p].has_id
         /\ message[p].video_id \in Videos
         /\ message[p].n > 0)
        => \A i \in 1..message[p].n :
              \E r \in DOMAIN voices : /\ voices[r].video_id = message[p].video_id
                                       /\ voices[r].text_content = i
                                       /\ voices[r].status = "completed"
====
